---------------------------- MODULE Spec2Model ----------------------------
(***************************************************************************)
(* Model of the OAuth authorization-server bootstrap logic of              *)
(* mcp/server/auth/routes.py and of the helper and provider contract of    *)
(* mcp/server/auth/provider.py.                                            *)
(*                                                                         *)
(* Python strings are modelled as sequences of one-character strings, so   *)
(* that rstrip, lstrip, startswith, splitting and joining are computed as  *)
(* the code computes them.  Python's None is the tuple None below, which   *)
(* no character sequence equals.                                           *)
(***************************************************************************)
EXTENDS Naturals, Sequences, FiniteSets

VARIABLES
    call,        \* the last construction-time call: its arguments and outcome
    auth_codes,  \* provider: the live authorization-code records
    tokens,      \* provider: the live access and refresh tokens
    minted,      \* provider: how many codes have been minted
    successes,   \* per code value, how many exchanges have succeeded
    held,        \* per handler, the code record it loaded and has yet to exchange
    last         \* the last provider call: its argument, outcome and pre-state

vars == <<call, auth_codes, tokens, minted, successes, held, last>>

provider_vars == <<auth_codes, tokens, minted, successes, held, last>>

\* ------------------------------------------------------------------ bounds

\* Longest issuer path drawn (characters).
MaxPathLen == 3

\* ----------------------------------------------------------- Python values

None == <<"<None>">>

\* Python's None where the value is otherwise an object (a URL, an options
\* object): a record that no such object equals.
NoneObj == [none |-> TRUE]

\* bool(s) of an Optional[str]: None and "" are falsy.
Truthy(s) == s # None /\ s # <<>>

\* s or "" of an Optional[str].
OrEmpty(s) == IF Truthy(s) THEN s ELSE <<>>

RECURSIVE RStrip(_, _)
\* str.rstrip(c): every trailing c removed.
RStrip(s, c) ==
    IF s # <<>> /\ s[Len(s)] = c THEN RStrip(SubSeq(s, 1, Len(s) - 1), c) ELSE s

RECURSIVE LStrip(_, _)
\* str.lstrip(c): every leading c removed.
LStrip(s, c) ==
    IF s # <<>> /\ s[1] = c THEN LStrip(Tail(s), c) ELSE s

\* str.startswith(p)
StartsWith(s, p) == Len(s) >= Len(p) /\ SubSeq(s, 1, Len(p)) = p

\* ------------------------------------------------------------- issuer URLs

LOCALHOST == <<"l","o","c","a","l","h","o","s","t">>

LOOPBACK_PREFIX == <<"1","2","7",".","0",".","0",".","1">>

HostExample == <<"a","u","t","h",".","e","x","a","m","p","l","e",".","c","o","m">>

\* Hosts an AnyHttpUrl can carry: the two loopback spellings, a host that only
\* begins with the loopback address, hosts that merely resemble them, and an
\* ordinary domain.
Hosts ==
    { LOCALHOST,
      LOOPBACK_PREFIX,
      LOOPBACK_PREFIX \o <<".","e","v","i","l">>,
      LOCALHOST \o <<".","e","v","i","l">>,
      <<"1","2","7",".","0",".","0",".","2">>,
      HostExample }

\* AnyHttpUrl admits exactly these schemes.
Schemes == {"http", "https"}

\* url.port, written as its digits.
Ports == { None, <<"8","4","4","3">> }

PathChars == {"/", "a"}

\* url.path: None, or a path that is empty or begins with "/".
Paths ==
    {None} \cup
    { p \in UNION { [1..n -> PathChars] : n \in 0..MaxPathLen } :
        p = <<>> \/ p[1] = "/" }

\* url.query and url.fragment: absent, present and empty ("https://h/?"),
\* or present and non-empty.
Queries == { None, <<>>, <<"q","=","1">> }

Fragments == { None, <<>>, <<"f">> }

\* The parsed AnyHttpUrl values the functions are called with.
IssuerUrls ==
    [ scheme : Schemes, username : {None}, password : {None}, host : Hosts,
      port : Ports, path : Paths, query : Queries, fragment : Fragments ]

DocUrls ==
    { NoneObj,
      [ scheme |-> "https", username |-> None, password |-> None,
        host |-> HostExample, port |-> None, path |-> <<"/","a">>,
        query |-> None, fragment |-> None ] }

\* -------------------------------------------------------------- validation

NoError == "no error"

\* A plausible slip: the loopback exception written with startswith for
\* localhost too.
MutValidateIssuerUrl(url) ==
    IF /\ url.scheme # "https"
       /\ ~ StartsWith(url.host, LOCALHOST)
       /\ ~ (url.host # None /\ StartsWith(url.host, LOOPBACK_PREFIX))
    THEN "ValueError: Issuer URL must be HTTPS"
    ELSE IF Truthy(url.fragment)
    THEN "ValueError: Issuer URL must not have a fragment"
    ELSE IF Truthy(url.query)
    THEN "ValueError: Issuer URL must not have a query string"
    ELSE NoError

\* validate_issuer_url: the error it raises, or NoError.
validate_issuer_url(url) ==
    IF /\ url.scheme # "https"
       /\ url.host # LOCALHOST
       /\ ~ (url.host # None /\ StartsWith(url.host, LOOPBACK_PREFIX))
    THEN "ValueError: Issuer URL must be HTTPS"
    ELSE IF Truthy(url.fragment)
    THEN "ValueError: Issuer URL must not have a fragment"
    ELSE IF Truthy(url.query)
    THEN "ValueError: Issuer URL must not have a query string"
    ELSE NoError


\* ----------------------------------------------------------- shared paths

AUTHORIZATION_PATH == <<"/","a","u","t","h","o","r","i","z","e">>

TOKEN_PATH == <<"/","t","o","k","e","n">>

REGISTRATION_PATH == <<"/","r","e","g","i","s","t","e","r">>

REVOCATION_PATH == <<"/","r","e","v","o","k","e">>

WELL_KNOWN_PATH ==
    <<"/",".","w","e","l","l","-","k","n","o","w","n","/","o","a","u","t","h","-","a","u","t","h","o","r","i","z","a","t","i","o","n","-","s","e","r","v","e","r">>

\* ClientRegistrationOptions() and RevocationOptions() with no argument.
DefaultClientRegistrationOptions == [enabled |-> FALSE]

DefaultRevocationOptions == [enabled |-> FALSE]

\* ---------------------------------------------------------------- metadata

\* AnyHttpUrl.build: the builder writes scheme://host[:port], then "/" and
\* the path, then "?" and the query, then "#" and the fragment, each when
\* given, and parses the text; the parsed components are these.
AnyHttpUrl_build(scheme, username, password, host, port, path, query, fragment) ==
    [ scheme |-> scheme, username |-> username, password |-> password,
      host |-> host, port |-> port,
      path |-> IF path = None THEN <<"/">> ELSE <<"/">> \o path,
      query |-> query, fragment |-> fragment ]

\* A plausible slip: the suffix keeps its leading slash.
MutEndpointPath(path, suffix) == RStrip(path, "/") \o suffix

\* The path_mapper lambdas of build_metadata, which differ only in the path
\* constant: lambda path: path.rstrip("/") + SUFFIX.lstrip("/").
EndpointPath(path, suffix) == RStrip(path, "/") \o LStrip(suffix, "/")

\* modify_url_path with path_mapper the lambda for `suffix`.
modify_url_path(url, suffix) ==
    AnyHttpUrl_build(url.scheme, url.username, url.password, url.host, url.port,
                     EndpointPath(OrEmpty(url.path), suffix),
                     url.query, url.fragment)

\* A plausible slip: the revocation auth methods set whatever the flag.
MutMetadataFields(service_documentation_url, registration, revocation) ==
    { "issuer", "authorization_endpoint", "token_endpoint",
      "response_types_supported", "grant_types_supported",
      "token_endpoint_auth_methods_supported",
      "code_challenge_methods_supported",
      "revocation_endpoint_auth_methods_supported" }
    \cup (IF service_documentation_url # NoneObj
          THEN {"service_documentation"} ELSE {})
    \cup (IF registration THEN {"registration_endpoint"} ELSE {})
    \cup (IF revocation THEN {"revocation_endpoint"} ELSE {})

\* The fields of the OAuthMetadata that build_metadata leaves set (not None):
\* those its constructor call passes a value for, and those assigned under
\* the two flags.
MetadataFields(service_documentation_url, registration, revocation) ==
    { "issuer", "authorization_endpoint", "token_endpoint",
      "response_types_supported", "grant_types_supported",
      "token_endpoint_auth_methods_supported",
      "code_challenge_methods_supported" }
    \cup (IF service_documentation_url # NoneObj
          THEN {"service_documentation"} ELSE {})
    \cup (IF registration THEN {"registration_endpoint"} ELSE {})
    \cup (IF revocation
          THEN {"revocation_endpoint", "revocation_endpoint_auth_methods_supported"}
          ELSE {})

\* build_metadata: the document as a function on the fields that are set; a
\* field left None is not in its domain.
build_metadata(issuer_url, service_documentation_url, client_registration_options, revocation_options) ==
    [ f \in MetadataFields(service_documentation_url,
                           client_registration_options.enabled,
                           revocation_options.enabled) |->
        CASE f = "issuer" -> issuer_url
          [] f = "authorization_endpoint" ->
                modify_url_path(issuer_url, AUTHORIZATION_PATH)
          [] f = "token_endpoint" -> modify_url_path(issuer_url, TOKEN_PATH)
          [] f = "response_types_supported" -> <<"code">>
          [] f = "grant_types_supported" ->
                <<"authorization_code", "refresh_token">>
          [] f = "token_endpoint_auth_methods_supported" ->
                <<"client_secret_post">>
          [] f = "code_challenge_methods_supported" -> <<"S256">>
          [] f = "service_documentation" -> service_documentation_url
          [] f = "registration_endpoint" ->
                modify_url_path(issuer_url, REGISTRATION_PATH)
          [] f = "revocation_endpoint" ->
                modify_url_path(issuer_url, REVOCATION_PATH)
          [] f = "revocation_endpoint_auth_methods_supported" ->
                <<"client_secret_post">> ]


\* -------------------------------------------------------------- route table

Route(path, endpoint, methods) ==
    [path |-> path, endpoint |-> endpoint, methods |-> methods]

\* x or Default() of an optional options object.
OrDefault(options, default) == IF options = NoneObj THEN default ELSE options

\* A plausible slip: the revocation route appended under the registration
\* flag.
MutRouteList(registration, revocation) ==
    << Route(WELL_KNOWN_PATH, "MetadataHandler", <<"GET">>),
       Route(AUTHORIZATION_PATH, "AuthorizationHandler", <<"GET", "POST">>),
       Route(TOKEN_PATH, "TokenHandler", <<"POST">>) >>
    \o (IF registration
        THEN << Route(REGISTRATION_PATH, "RegistrationHandler", <<"POST">>) >>
        ELSE <<>>)
    \o (IF registration
        THEN << Route(REVOCATION_PATH, "RevocationHandler", <<"POST">>) >>
        ELSE <<>>)

\* The list `routes` of create_auth_routes: the three routes it starts with
\* and the two appended under the flags.
RouteList(registration, revocation) ==
    << Route(WELL_KNOWN_PATH, "MetadataHandler", <<"GET">>),
       Route(AUTHORIZATION_PATH, "AuthorizationHandler", <<"GET", "POST">>),
       Route(TOKEN_PATH, "TokenHandler", <<"POST">>) >>
    \o (IF registration
        THEN << Route(REGISTRATION_PATH, "RegistrationHandler", <<"POST">>) >>
        ELSE <<>>)
    \o (IF revocation
        THEN << Route(REVOCATION_PATH, "RevocationHandler", <<"POST">>) >>
        ELSE <<>>)

\* The part of create_auth_routes after validation: what it returns, with
\* the metadata it built and the objects it constructed, in construction
\* order.
AssembleRoutes(issuer_url, service_documentation_url, client_registration_options, revocation_options) ==
    LET reg == OrDefault(client_registration_options, DefaultClientRegistrationOptions)
        rev == OrDefault(revocation_options, DefaultRevocationOptions)
    IN  [ raised |-> NoError,
          returned |-> TRUE,
          routes |-> RouteList(reg.enabled, rev.enabled),
          metadata |-> build_metadata(issuer_url, service_documentation_url, reg, rev),
          built |-> <<"OAuthMetadata", "ClientAuthenticator", "MetadataHandler",
                      "AuthorizationHandler", "TokenHandler">>
                    \o (IF reg.enabled THEN <<"RegistrationHandler">> ELSE <<>>)
                    \o (IF rev.enabled THEN <<"RevocationHandler">> ELSE <<>>) ]

\* What create_auth_routes leaves behind when validate_issuer_url raises at
\* its first statement: the error propagates, nothing is returned or built.
Aborted(error) ==
    [ raised |-> error, returned |-> FALSE, routes |-> <<>>,
      metadata |-> <<>>, built |-> <<>> ]

\* A plausible slip: the issuer validated after the metadata and the client
\* authenticator are built.
MutCreateAuthRoutes(issuer_url, service_documentation_url, client_registration_options, revocation_options) ==
    LET assembled == AssembleRoutes(issuer_url, service_documentation_url,
                                    client_registration_options, revocation_options)
    IN  IF validate_issuer_url(issuer_url) # NoError
        THEN [ Aborted(validate_issuer_url(issuer_url)) EXCEPT
                 !.metadata = assembled.metadata,
                 !.built = <<"OAuthMetadata", "ClientAuthenticator">> ]
        ELSE assembled

\* create_auth_routes (the provider is opaque and only handed on).
create_auth_routes(issuer_url, service_documentation_url, client_registration_options, revocation_options) ==
    IF validate_issuer_url(issuer_url) # NoError
    THEN Aborted(validate_issuer_url(issuer_url))
    ELSE AssembleRoutes(issuer_url, service_documentation_url,
                        client_registration_options, revocation_options)

OptionValues == { NoneObj, [enabled |-> FALSE], [enabled |-> TRUE] }

\* ------------------------------------------------- bootstrap: the calls
\* The functions are pure: each behaviour is one call, with any arguments,
\* and `call` keeps the arguments and the outcome.

CallValidateIssuerUrl ==
    /\ call.op = "none"
    /\ \E url \in IssuerUrls :
         call' = [ op |-> "validate_issuer_url", url |-> url,
                   raised |-> validate_issuer_url(url) ]
    /\ UNCHANGED provider_vars

CallBuildMetadata ==
    /\ call.op = "none"
    /\ \E url \in IssuerUrls, doc \in DocUrls, reg \in BOOLEAN, rev \in BOOLEAN :
         call' = [ op |-> "build_metadata", url |-> url, doc |-> doc,
                   registration |-> reg, revocation |-> rev,
                   metadata |-> build_metadata(url, doc, [enabled |-> reg],
                                               [enabled |-> rev]) ]
    /\ UNCHANGED provider_vars

CallCreateAuthRoutes ==
    /\ call.op = "none"
    /\ \E url \in IssuerUrls, doc \in DocUrls,
          reg \in OptionValues, rev \in OptionValues :
         call' = [ op |-> "create_auth_routes", url |-> url, doc |-> doc,
                   registration |-> OrDefault(reg, DefaultClientRegistrationOptions).enabled,
                   revocation |-> OrDefault(rev, DefaultRevocationOptions).enabled,
                   result |-> create_auth_routes(url, doc, reg, rev) ]
    /\ UNCHANGED provider_vars


\* ------------------------------------------------- construct_redirect_uri

\* Index of the first c in s, 0 when there is none.
Find(s, c) ==
    IF \E i \in 1..Len(s) : s[i] = c
    THEN CHOOSE i \in 1..Len(s) : s[i] = c /\ \A j \in 1..(i - 1) : s[j] # c
    ELSE 0

RECURSIVE Split(_, _)
\* str.split(c)
Split(s, c) ==
    IF Find(s, c) = 0 THEN <<s>>
    ELSE <<SubSeq(s, 1, Find(s, c) - 1)>>
         \o Split(SubSeq(s, Find(s, c) + 1, Len(s)), c)

\* str.split(c, 1)
SplitOnce(s, c) ==
    IF Find(s, c) = 0 THEN <<s>>
    ELSE <<SubSeq(s, 1, Find(s, c) - 1), SubSeq(s, Find(s, c) + 1, Len(s))>>

RECURSIVE Join(_, _)
\* c.join(parts)
Join(parts, c) ==
    IF parts = <<>> THEN <<>>
    ELSE IF Len(parts) = 1 THEN parts[1]
    ELSE parts[1] \o <<c>> \o Join(Tail(parts), c)

\* urlparse, as far as the helper uses it: the fragment is what follows the
\* first "#", the query what follows the first "?" before it; scheme, netloc
\* and path stay together in `rest`, which _replace(query=...) and urlunparse
\* hand through.
urlparse(url) ==
    LET f == SplitOnce(url, "#")
        q == SplitOnce(f[1], "?")
    IN  [ rest |-> q[1],
          query |-> IF Len(q) = 2 THEN q[2] ELSE <<>>,
          fragment |-> IF Len(f) = 2 THEN f[2] ELSE <<>> ]

\* urlunparse: "?" and the query, "#" and the fragment, each when non-empty.
urlunparse(parsed) ==
    parsed.rest
    \o (IF parsed.query # <<>> THEN <<"?">> \o parsed.query ELSE <<>>)
    \o (IF parsed.fragment # <<>> THEN <<"#">> \o parsed.fragment ELSE <<>>)

RECURSIVE parse_qsl(_)
\* parse_qsl on the "&"-separated fields: an empty field is skipped, a field
\* without "=" or with a blank value is dropped (keep_blank_values is off).
\* The queries drawn hold no "+" and no "%", so unquoting changes nothing.
parse_qsl(fields) ==
    IF fields = <<>> THEN <<>>
    ELSE LET nv == SplitOnce(fields[1], "=")
         IN  (IF Len(nv) = 2 /\ nv[2] # <<>> THEN << <<nv[1], nv[2]>> >> ELSE <<>>)
             \o parse_qsl(Tail(fields))

RECURSIVE DictKeys(_)
\* The keys of the dict parse_qs builds from the pairs, in insertion order:
\* each name once, at its first occurrence.
DictKeys(pairs) ==
    IF pairs = <<>> THEN <<>>
    ELSE LET before == DictKeys(SubSeq(pairs, 1, Len(pairs) - 1))
             name == pairs[Len(pairs)][1]
         IN  IF \E i \in 1..Len(before) : before[i] = name
             THEN before ELSE Append(before, name)

\* Iterating parse_qs(query) yields its keys.
parse_qs_iter(query) == DictKeys(parse_qsl(Split(query, "&")))

\* quote_plus of one character of the alphabet used here.
QuoteChar(c) ==
    CASE c = " " -> <<"+">>
      [] c = "=" -> <<"%", "3", "D">>
      [] c = "&" -> <<"%", "2", "6">>
      [] c = "/" -> <<"%", "2", "F">>
      [] OTHER -> <<c>>

RECURSIVE quote_plus(_)
quote_plus(s) ==
    IF s = <<>> THEN <<>> ELSE QuoteChar(s[1]) \o quote_plus(Tail(s))

RECURSIVE EncodePairs(_)
EncodePairs(pairs) ==
    IF pairs = <<>> THEN <<>>
    ELSE << quote_plus(pairs[1][1]) \o <<"=">> \o quote_plus(pairs[1][2]) >>
         \o EncodePairs(Tail(pairs))

\* urlencode of a list of pairs.
urlencode(pairs) == Join(EncodePairs(pairs), "&")

RECURSIVE GivenParams(_)
\* The loop over params.items(): the pairs whose value is not None, in
\* call order.
GivenParams(params) ==
    IF params = <<>> THEN <<>>
    ELSE (IF params[1][2] # None THEN <<params[1]>> ELSE <<>>)
         \o GivenParams(Tail(params))

\* The target "k, vs" of the comprehension unpacks each item the iteration
\* yields; an item is a key string, which unpacks only when it has exactly
\* two characters, and then "for v in vs" yields the second one.
UnpackKey(key) == << <<key[1]>>, <<key[2]>> >>

\* construct_redirect_uri: the URL it returns, or the error it raises.
construct_redirect_uri(redirect_uri_base, params) ==
    LET parsed_uri == urlparse(redirect_uri_base)
        keys == parse_qs_iter(parsed_uri.query)
    IN  IF \E i \in 1..Len(keys) : Len(keys[i]) # 2
        THEN [ raised |-> "ValueError: cannot unpack", value |-> <<>> ]
        ELSE LET query_params ==
                     [i \in 1..Len(keys) |-> UnpackKey(keys[i])]
                     \o GivenParams(params)
             IN  [ raised |-> NoError,
                   value |-> urlunparse([parsed_uri EXCEPT
                                           !.query = urlencode(query_params)]) ]

RedirectBases ==
    { <<"h","t","t","p","s",":","/","/","c","b",".","e","x","a","m","p","l","e",".","c","o","m","/","c","b">>,
      <<"h","t","t","p","s",":","/","/","c","b",".","e","x","a","m","p","l","e",".","c","o","m","/","c","b","?","f","o","o","=","1">>,
      <<"h","t","t","p","s",":","/","/","c","b",".","e","x","a","m","p","l","e",".","c","o","m","/","c","b","?","a","b","=","1">>,
      <<"h","t","t","p","s",":","/","/","c","b",".","e","x","a","m","p","l","e",".","c","o","m","/","c","b","?","a","=","1","&","b","=","2">>,
      <<"h","t","t","p","s",":","/","/","c","b",".","e","x","a","m","p","l","e",".","c","o","m","/","c","b","?","x","=">>,
      <<"h","t","t","p","s",":","/","/","c","b",".","e","x","a","m","p","l","e",".","c","o","m","/","c","b","?","f","o","o","=","1","#","f","r","a","g">>,
      <<"h","t","t","p","s",":","/","/","c","b",".","e","x","a","m","p","l","e",".","c","o","m","/","c","b","#","f","r","a","g">> }

P_code == <<"c","o","d","e">>

P_state == <<"s","t","a","t","e">>

P_error == <<"e","r","r","o","r">>

\* The keyword arguments of a call, in call order.
ParamLists ==
    { <<>>,
      << <<P_code, <<"a","b","c">> >>, <<P_state, None>> >>,
      << <<P_code, <<"a","b","c">> >>, <<P_state, <<"x","y">> >> >>,
      << <<P_state, None>>, <<P_code, <<"a","b","c">> >> >>,
      << <<P_error, <<"a"," ","b">> >>, <<P_state, <<"x","=","y">> >> >> }

CallConstructRedirectUri ==
    /\ call.op = "none"
    /\ \E base \in RedirectBases, params \in ParamLists :
         call' = [ op |-> "construct_redirect_uri", base |-> base,
                   params |-> params,
                   result |-> construct_redirect_uri(base, params) ]
    /\ UNCHANGED provider_vars


\* ------------------------------------------------------ provider contract
\* OAuthServerProvider is a Protocol: the repository declares the operations
\* and leaves their bodies to the implementer.  The provider below is the
\* reference implementation the contract describes: a store of live
\* authorization codes and a store of live tokens, each operation atomic.

\* Concurrent token-endpoint handlers.
NumHandlers == 2

\* Authorization codes the provider mints.
MaxCodes == 2

\* Successful exchanges counted per code before the count stops.
MaxSuccesses == 3

Handlers == 1..NumHandlers

Codes == 1..MaxCodes

\* The tokens an exchange of code c issues.
AccessToken(c) == <<"access", c>>

RefreshTokenOf(c) == <<"refresh", c>>

\* Token strings a revocation request can carry: every token the provider
\* may issue, and one it never issues.
TokenValues ==
    { AccessToken(c) : c \in Codes } \cup { RefreshTokenOf(c) : c \in Codes }
    \cup { <<"access", 0>> }

\* A slip: the code is checked but left in the store.
MutExchangeAuthorizationCode(codes, toks, authorization_code) ==
    IF authorization_code \in codes
    THEN [ ok |-> TRUE, auth_codes |-> codes,
           tokens |-> toks \cup { AccessToken(authorization_code.code),
                                  RefreshTokenOf(authorization_code.code) } ]
    ELSE [ ok |-> FALSE, auth_codes |-> codes, tokens |-> toks ]

\* exchange_authorization_code: in one atomic step the code is checked and
\* invalidated and the tokens are issued; a code no longer live fails.
exchange_authorization_code(codes, toks, authorization_code) ==
    IF authorization_code \in codes
    THEN [ ok |-> TRUE, auth_codes |-> codes \ {authorization_code},
           tokens |-> toks \cup { AccessToken(authorization_code.code),
                                  RefreshTokenOf(authorization_code.code) } ]
    ELSE [ ok |-> FALSE, auth_codes |-> codes, tokens |-> toks ]

\* load_authorization_code: the live record with that code value, or None.
load_authorization_code(codes, code) ==
    IF \E r \in codes : r.code = code
    THEN CHOOSE r \in codes : r.code = code
    ELSE NoneObj

\* A slip: an unknown or already revoked token is reported as an error.
MutRevokeToken(toks, token) ==
    [ ok |-> token \in toks, tokens |-> toks \ {token} ]

\* revoke_token: the token stops being live; a token that is not live
\* changes nothing, and the call succeeds either way.
revoke_token(toks, token) ==
    [ ok |-> TRUE, tokens |-> toks \ {token} ]

NoCall == [ op |-> "none", code |-> 0, token |-> <<"access", 0>>, ok |-> TRUE,
            prior |-> 0, pre_codes |-> {}, pre_tokens |-> {} ]

\* authorize (its final redirect): a fresh code is minted and stored.
Authorize ==
    /\ minted < MaxCodes
    /\ minted' = minted + 1
    /\ auth_codes' = auth_codes \cup { [code |-> minted + 1] }
    /\ last' = [NoCall EXCEPT !.op = "authorize", !.code = minted + 1]
    /\ UNCHANGED <<call, tokens, successes, held>>

\* A handler looks the presented code up; it holds the record from here on.
LoadAuthorizationCode(h, code) ==
    /\ held' = [held EXCEPT ![h] = load_authorization_code(auth_codes, code)]
    /\ last' = [NoCall EXCEPT !.op = "load_authorization_code", !.code = code,
                              !.ok = (held'[h] # NoneObj)]
    /\ UNCHANGED <<call, auth_codes, tokens, minted, successes>>

\* A handler exchanges the record it holds.
ExchangeAuthorizationCode(h) ==
    /\ held[h] # NoneObj
    /\ successes[held[h].code] < MaxSuccesses
    /\ LET r == exchange_authorization_code(auth_codes, tokens, held[h])
       IN  /\ auth_codes' = r.auth_codes
           /\ tokens' = r.tokens
           /\ successes' =
                 IF r.ok
                 THEN [successes EXCEPT ![held[h].code] = @ + 1]
                 ELSE successes
           /\ last' = [NoCall EXCEPT !.op = "exchange_authorization_code",
                                     !.code = held[h].code, !.ok = r.ok,
                                     !.prior = successes[held[h].code]]
    /\ held' = [held EXCEPT ![h] = NoneObj]
    /\ UNCHANGED <<call, minted>>

\* The revocation endpoint hands a request's token to the provider.
RevokeToken(token) ==
    /\ LET r == revoke_token(tokens, token)
       IN  /\ tokens' = r.tokens
           /\ last' = [NoCall EXCEPT !.op = "revoke_token", !.token = token,
                                     !.ok = r.ok, !.pre_codes = auth_codes,
                                     !.pre_tokens = tokens]
    /\ UNCHANGED <<call, auth_codes, minted, successes, held>>

\* ---------------------------------------------------------- specifications

Init ==
    /\ call = [op |-> "none"]
    /\ auth_codes = {}
    /\ tokens = {}
    /\ minted = 0
    /\ successes = [c \in Codes |-> 0]
    /\ held = [h \in Handlers |-> NoneObj]
    /\ last = NoCall

\* Server construction: the pure functions, each called with any input.
Next ==
    \/ CallValidateIssuerUrl
    \/ CallBuildMetadata
    \/ CallCreateAuthRoutes
    \/ CallConstructRedirectUri

Spec == Init /\ [][Next]_vars

\* Request time: handlers call the provider in any interleaving.
NextProvider ==
    \/ Authorize
    \/ \E h \in Handlers, code \in Codes : LoadAuthorizationCode(h, code)
    \/ \E h \in Handlers : ExchangeAuthorizationCode(h)
    \/ \E token \in TokenValues : RevokeToken(token)

SpecProvider == Init /\ [][NextProvider]_vars


\* ------------------------------------------------------------------ claims

\* p is a prefix of s, character by character.
IsPrefix(p, s) == Len(p) <= Len(s) /\ \A i \in 1..Len(p) : s[i] = p[i]

\* The URL the helper is specified to return: the base, its own query text
\* first, then name=value for each supplied parameter that has a value.
C1_Specified(base, params) ==
    LET u == urlparse(base)
        own == IF u.query # <<>> THEN <<u.query>> ELSE <<>>
        supplied == { i \in 1..Len(params) : params[i][2] # None }
        text(i) == quote_plus(params[i][1]) \o <<"=">> \o quote_plus(params[i][2])
        cut == [i \in 1..Len(params) |-> IF i \in supplied THEN <<text(i)>> ELSE <<>>]
        flat[i \in 0..Len(params)] == IF i = 0 THEN <<>> ELSE flat[i - 1] \o cut[i]
    IN  urlunparse([u EXCEPT !.query = Join(own \o flat[Len(params)], "&")])

\* C1: construct_redirect_uri never fails and returns the base URL whose
\* query is the base's own query parameters in their order followed by the
\* supplied parameters in call order, those with value None skipped.
C1_RedirectUriKeepsAndAppends ==
    call.op = "construct_redirect_uri" =>
        /\ call.result.raised = NoError
        /\ call.result.value = C1_Specified(call.base, call.params)

\* C2: an issuer URL whose scheme is not https and whose host is neither
\* exactly localhost nor begins with 127.0.0.1 is rejected, whatever its
\* path, query and fragment.
C2_InsecureNonLoopbackRejected ==
    ( /\ call.op = "validate_issuer_url"
      /\ call.url.scheme # "https"
      /\ call.url.host # <<"l","o","c","a","l","h","o","s","t">>
      /\ ~ IsPrefix(<<"1","2","7",".","0",".","0",".","1">>, call.url.host) )
    => call.raised = "ValueError: Issuer URL must be HTTPS"

C2_Witness ==
    /\ call.op = "validate_issuer_url"
    /\ call.url.scheme = "http"
    /\ call.url.host = <<"l","o","c","a","l","h","o","s","t",".","e","v","i","l">>
    /\ call.url.query = None
    /\ call.url.fragment = None
    /\ call.raised = "ValueError: Issuer URL must be HTTPS"

\* C3: an issuer URL that carries a fragment component or a query component
\* is rejected, whatever its scheme and host.
C3_FragmentOrQueryRejected ==
    ( /\ call.op = "validate_issuer_url"
      /\ (call.url.fragment # None \/ call.url.query # None) )
    => call.raised # NoError

\* C4: the document of build_metadata has registration_endpoint set exactly
\* when registration is enabled, and revocation_endpoint and
\* revocation_endpoint_auth_methods_supported set exactly when revocation is
\* enabled; the flags add one field and two fields, and nothing else.
C4_FlagFields ==
    call.op = "build_metadata" =>
        LET set == DOMAIN call.metadata
            flagged == { "registration_endpoint", "revocation_endpoint",
                         "revocation_endpoint_auth_methods_supported" }
            without ==
                DOMAIN build_metadata(call.url, call.doc, [enabled |-> FALSE],
                                      [enabled |-> FALSE])
        IN  /\ ("registration_endpoint" \in set) <=> call.registration
            /\ ("revocation_endpoint" \in set) <=> call.revocation
            /\ ("revocation_endpoint_auth_methods_supported" \in set)
                   <=> call.revocation
            /\ set \ flagged = without
            /\ without \cap flagged = {}
            /\ Cardinality(set) =
                   Cardinality(without)
                   + (IF call.registration THEN 1 ELSE 0)
                   + (IF call.revocation THEN 2 ELSE 0)

C4_Witness ==
    /\ call.op = "build_metadata"
    /\ call.registration
    /\ ~ call.revocation
    /\ "registration_endpoint" \in DOMAIN call.metadata
    /\ "revocation_endpoint" \notin DOMAIN call.metadata

\* The (path, methods) pairs of a route list.
Bound(routes) ==
    { <<routes[i].path, { routes[i].methods[j] : j \in 1..Len(routes[i].methods) }>> :
        i \in 1..Len(routes) }

\* C5: for an issuer that passes validation create_auth_routes returns
\* exactly the well-known route (GET), /authorize (GET, POST), /token (POST),
\* /register (POST) iff registration is enabled and /revoke (POST) iff
\* revocation is enabled, each path once.
C5_RouteTable ==
    ( /\ call.op = "create_auth_routes"
      /\ validate_issuer_url(call.url) = NoError )
    => /\ call.result.returned
       /\ Bound(call.result.routes) =
            { <<
                 <<"/",".","w","e","l","l","-","k","n","o","w","n","/","o","a","u","t","h","-","a","u","t","h","o","r","i","z","a","t","i","o","n","-","s","e","r","v","e","r">>, {"GET"}>>,
              <<<<"/","a","u","t","h","o","r","i","z","e">>, {"GET", "POST"}>>,
              <<<<"/","t","o","k","e","n">>, {"POST"}>> }
            \cup (IF call.registration
                  THEN { <<<<"/","r","e","g","i","s","t","e","r">>, {"POST"}>> } ELSE {})
            \cup (IF call.revocation
                  THEN { <<<<"/","r","e","v","o","k","e">>, {"POST"}>> } ELSE {})
       /\ \A i, j \in 1..Len(call.result.routes) :
            call.result.routes[i].path = call.result.routes[j].path => i = j

C5_Witness ==
    /\ call.op = "create_auth_routes"
    /\ call.result.returned
    /\ ~ call.registration
    /\ call.revocation
    /\ Len(call.result.routes) = 4
    /\ call.result.routes[4].path = <<"/","r","e","v","o","k","e">>

\* The endpoint fields of the document and the path text each one ends in.
C6_Endpoints ==
    { <<"authorization_endpoint", <<"a","u","t","h","o","r","i","z","e">>>>,
      <<"token_endpoint", <<"t","o","k","e","n">>>>,
      <<"registration_endpoint", <<"r","e","g","i","s","t","e","r">>>>,
      <<"revocation_endpoint", <<"r","e","v","o","k","e">>>> }

\* C6: every endpoint URL of build_metadata keeps the issuer's scheme, host,
\* port, query and fragment, and its path is the issuer path without its
\* trailing slashes joined with no separator to the suffix without its
\* leading slash (the URL builder writes the "/" that opens the path); for
\* https://auth.example.com the token endpoint is
\* https://auth.example.com/token.
C6_EndpointDerivation ==
    call.op = "build_metadata" =>
        /\ \A e \in C6_Endpoints :
             e[1] \in DOMAIN call.metadata =>
                call.metadata[e[1]] =
                    [ call.url EXCEPT
                        !.path = <<"/">> \o RStrip(OrEmpty(call.url.path), "/") \o e[2] ]
        /\ ( /\ call.url.scheme = "https"
             /\ call.url.host = <<"a","u","t","h",".","e","x","a","m","p","l","e",".","c","o","m">>
             /\ call.url.port = None
             /\ call.url.path \in { None, <<>>, <<"/">> }
             /\ call.url.query = None
             /\ call.url.fragment = None )
           => call.metadata["token_endpoint"] =
                [ scheme |-> "https", username |-> None, password |-> None,
                  host |-> <<"a","u","t","h",".","e","x","a","m","p","l","e",".","c","o","m">>, port |-> None, path |-> <<"/","t","o","k","e","n">>,
                  query |-> None, fragment |-> None ]

C6_Witness ==
    /\ call.op = "build_metadata"
    /\ call.url.path = <<"/", "a", "/">>
    /\ call.url.query # None
    /\ call.revocation
    /\ call.metadata["revocation_endpoint"].path = <<"/", "/", "a">> \o <<"r","e","v","o","k","e">>
    /\ call.metadata["revocation_endpoint"].query = call.url.query

\* C7: of all the exchanges of one authorization code, in any interleaving,
\* at most one succeeds, and an exchange attempted after one has succeeded
\* fails.
C7_SingleUse ==
    /\ \A c \in Codes : successes[c] <= 1
    /\ (last.op = "exchange_authorization_code" /\ last.prior >= 1) => ~ last.ok

C7_Witness ==
    /\ last.op = "exchange_authorization_code"
    /\ last.prior = 1
    /\ ~ last.ok
    /\ successes[last.code] = 1

\* C8: revoke_token with a token that is unknown or already revoked succeeds
\* and leaves the provider's state as it was; every revocation succeeds.
C8_RevokeIdempotent ==
    last.op = "revoke_token" =>
        /\ last.ok
        /\ last.token \notin last.pre_tokens =>
              (tokens = last.pre_tokens /\ auth_codes = last.pre_codes)
        /\ last.token \notin tokens

C8_Witness ==
    /\ last.op = "revoke_token"
    /\ last.token[2] \in Codes
    /\ successes[last.token[2]] = 1
    /\ last.token \notin last.pre_tokens
    /\ last.ok
    /\ tokens = last.pre_tokens

\* C9: when validate_issuer_url fails, create_auth_routes fails with that
\* error and has returned no route list and built no metadata, no client
\* authenticator and no handler.
C9_ValidationFirst ==
    ( /\ call.op = "create_auth_routes"
      /\ validate_issuer_url(call.url) # NoError )
    => /\ call.result.raised = validate_issuer_url(call.url)
       /\ ~ call.result.returned
       /\ call.result.routes = <<>>
       /\ DOMAIN call.result.metadata = {}
       /\ call.result.built = <<>>

C9_Witness ==
    /\ call.op = "create_auth_routes"
    /\ call.result.raised = "ValueError: Issuer URL must not have a fragment"
    /\ ~ call.result.returned
    /\ call.registration

\* The endpoint fields of the document and the route path bound for each.
C10_Endpoints ==
    { <<"authorization_endpoint", <<"/","a","u","t","h","o","r","i","z","e">>>>,
      <<"token_endpoint", <<"/","t","o","k","e","n">>>>,
      <<"registration_endpoint", <<"/","r","e","g","i","s","t","e","r">>>>,
      <<"revocation_endpoint", <<"/","r","e","v","o","k","e">>>> }

\* C10: for an issuer that passes validation, an endpoint is advertised in
\* the metadata exactly when a route is bound for it, and the path of the
\* advertised URL is the issuer path without its trailing slash followed by
\* exactly the bound path.
C10_AdvertisedMatchesBound ==
    ( /\ call.op = "create_auth_routes"
      /\ validate_issuer_url(call.url) = NoError )
    => \A e \in C10_Endpoints :
         /\ (e[1] \in DOMAIN call.result.metadata)
              <=> (\E i \in 1..Len(call.result.routes) :
                      call.result.routes[i].path = e[2])
         /\ e[1] \in DOMAIN call.result.metadata =>
              call.result.metadata[e[1]].path =
                  RStrip(OrEmpty(call.url.path), "/") \o e[2]

=============================================================================
